---- MODULE Spec2Model ----
(***************************************************************************)
(* Customer-service bot: perception (perception.py), record store          *)
(* (actions.py), policy (policy.py), orchestration (handle.py) and the     *)
(* composed reply (compose.py).                                            *)
(*                                                                         *)
(* A text is a sequence of fragments; the string the program sees is the   *)
(* fragments joined by single spaces.  The fragments are chosen so that no *)
(* keyword or regular-expression match spans two fragments, except the     *)
(* billing keyword "charge " (with its trailing space), which is modelled. *)
(* One fragment holds a line break: a message of two lines.                *)
(* Amounts are in cents, dates are whole days since the process started.   *)
(***************************************************************************)
EXTENDS Integers, Sequences, FiniteSets, TLC

VARIABLES now, TICKET_COUNTER, ACTIONS_LOG, REFUNDS, REPLACEMENTS, CREDITS,
          CALLBACKS, ESCALATIONS, SHIPMENTS,
          user_text, vader, today, before, p, order, actions, facts, reply, trail,
          served, pc, local, overlapped

store == <<TICKET_COUNTER, ACTIONS_LOG, REFUNDS, REPLACEMENTS, CREDITS,
           CALLBACKS, ESCALATIONS, SHIPMENTS>>
\* The last request: its inputs (the text, the sentiment outcome, the day
\* datetime.now() gave and the store it found) and its results.
request == <<user_text, vader, today, before, p, order, actions, facts, reply, trail>>
\* Issuing calls run by parallel workers: where each worker is, the record it
\* has built, and whether a call ever started while another call of its kind
\* was between reading the list length and appending.
workers == <<pc, local, overlapped>>
vars == <<now, store, request, served, workers>>

(***************************************************************************)
(* Bounds                                                                  *)
(***************************************************************************)
MaxLen == 2
MaxRequests == 2
NumWorkers == 2
MaxCalls == 3
MaxDay == 20
TickDays == 10

(***************************************************************************)
(* policy.py                                                               *)
(***************************************************************************)
refund_window_days == 30
goodwill_credit_default == 1000
loyalty_credit_amount == 500
replacement_delivery_days == 2
refund_eta_days == 3
callback_window == "today 4-6pm"
POLICY == [refund_window_days |-> refund_window_days,
           goodwill_credit_default |-> goodwill_credit_default,
           loyalty_credit_amount |-> loyalty_credit_amount,
           callback_window |-> callback_window,
           replacement_delivery_days |-> replacement_delivery_days,
           refund_eta_days |-> refund_eta_days]

(***************************************************************************)
(* The input alphabet and what the program's string operations find in     *)
(* each fragment.                                                          *)
(***************************************************************************)
Vocab == {"refund", "cracked", "charged", "charge", "twice", "canceling",
          "no", "hex key", "call me", "thanks", "hello", "!", "?",
          "confused", "furious", "$19.99", "+1 555-123-4567",
          "TCK-2025-10-06-C8", "(order ORD12345)", "(order ORD9ZX88)",
          "(order ORD-7842-CA)", "(order CA-993144)", "(order ZZ-0000)",
          "Serial CT-V11-9F2", "Janelle from support"}

\* The keywords and punctuation cues that are substrings of lower(f).
Hits(f) ==
  CASE f = "refund"    -> {"refund"}
    [] f = "cracked"   -> {"cracked"}
    [] f = "charged"   -> {"charged"}
    [] f = "twice"     -> {"twice"}
    [] f = "canceling" -> {"cancel", "canceling"}
    [] f = "hex key"   -> {"hex key"}
    [] f = "call me"   -> {"call me"}
    [] f = "thanks"    -> {"thanks"}
    [] f = "!"         -> {"!"}
    [] f = "?"         -> {"?"}
    [] f = "confused"  -> {"confused"}
    [] f = "furious"   -> {"furious"}
    [] OTHER           -> {}

\* k in content, for content the lower-cased text.  A keyword that ends in a
\* space is found only where another fragment follows.
Contains(text, k) ==
  IF k = "charge "
    THEN \E i \in 1..(Len(text) - 1) : text[i] = "charge"
    ELSE \E i \in 1..Len(text) : k \in Hits(text[i])

AnyIn(text, keywords) == \E k \in keywords : Contains(text, k)

\* The alternatives of the missing-phrase regex that occur in f as whole words.
WordHits(f) == IF f = "no" THEN {"no"} ELSE {}

\* ORDER_PATTERNS: the pattern (1..3) that matches in f (0: none), and the
\* captured group after rstrip and upper.
OrderPat(f) ==
  CASE f = "(order ORD12345)"    -> 1
    [] f = "(order ORD9ZX88)"    -> 1
    [] f = "(order ORD-7842-CA)" -> 2
    [] f = "(order CA-993144)"   -> 3
    [] f = "(order ZZ-0000)"     -> 3
    [] OTHER                     -> 0

OrderGroup(f) ==
  CASE f = "(order ORD12345)"    -> "ORD12345"
    [] f = "(order ORD9ZX88)"    -> "ORD9ZX88"
    [] f = "(order ORD-7842-CA)" -> "ORD-7842-CA"
    [] f = "(order CA-993144)"   -> "CA-993144"
    [] f = "(order ZZ-0000)"     -> "ZZ-0000"
    [] OTHER                     -> ""

\* A message of two lines: a phone number ends the first line and a numeral
\* starts the second.  The \s of PHONE_RE matches the line break.
TwoLines == "at 555-123-4567\n12 Main Street"

\* PHONE_RE: the first match in f ("": none), whether it is an ISO date, and
\* how many digits it holds.
PhoneRaw(f) ==
  CASE f = "+1 555-123-4567"   -> "+1 555-123-4567"
    [] f = TwoLines            -> "555-123-4567\n12"
    [] f = "TCK-2025-10-06-C8" -> "2025-10-06"
    [] OTHER                   -> ""

IsIsoDate(raw) == raw = "2025-10-06"

DigitCount(raw) ==
  CASE raw = "+1 555-123-4567" -> 11
    [] raw = "555-123-4567\n12" -> 12
    [] raw = "2025-10-06"      -> 8
    [] OTHER                   -> 0

\* AMOUNT_RE: the first numeral in f, thousands separators removed.
AmountGroup(f) ==
  CASE f = "$19.99"              -> "19.99"
    [] f = "+1 555-123-4567"     -> "1"
    [] f = TwoLines              -> "555"
    [] f = "TCK-2025-10-06-C8"   -> "2025"
    [] f = "(order ORD12345)"    -> "12345"
    [] f = "(order ORD9ZX88)"    -> "9"
    [] f = "(order ORD-7842-CA)" -> "7842"
    [] f = "(order CA-993144)"   -> "993144"
    [] f = "(order ZZ-0000)"     -> "0000"
    [] f = "Serial CT-V11-9F2"   -> "11"
    [] OTHER                     -> ""

\* float(a_txt), in cents.
Float(a_txt) ==
  CASE a_txt = "19.99"  -> 1999
    [] a_txt = "1"      -> 100
    [] a_txt = "2025"   -> 202500
    [] a_txt = "12345"  -> 1234500
    [] a_txt = "9"      -> 900
    [] a_txt = "7842"   -> 784200
    [] a_txt = "993144" -> 99314400
    [] a_txt = "0000"   -> 0
    [] a_txt = "11"     -> 1100

\* TICKET_RE and SERIAL_RE (case-sensitive, on the raw text).
TicketGroup(f) == IF f = "TCK-2025-10-06-C8" THEN "TCK-2025-10-06-C8" ELSE ""

SerialGroup(f) ==
  CASE f = "Serial CT-V11-9F2"   -> "CT-V11-9F2"
    [] f = "TCK-2025-10-06-C8"   -> "TCK-2025-10"
    [] f = "(order ORD-7842-CA)" -> "ORD-7842-CA"
    [] OTHER                     -> ""

\* MISSING_PART_RE (case-insensitive) and AGENT_MENTION_RE.
PartGroup(f) == IF f = "hex key" THEN "hex key" ELSE ""

AgentGroup(f) == IF f = "Janelle from support" THEN "Janelle" ELSE ""

\* rx.search(text) finds the leftmost match: the index of the first fragment
\* among the indexes I of the fragments that match.
Leftmost(I) == CHOOSE i \in I : \A j \in I : i <= j

SearchPhone(text) ==
  LET I == {i \in 1..Len(text) : PhoneRaw(text[i]) # ""}
  IN IF I = {} THEN "" ELSE PhoneRaw(text[Leftmost(I)])

SearchAmount(text) ==
  LET I == {i \in 1..Len(text) : AmountGroup(text[i]) # ""}
  IN IF I = {} THEN "" ELSE AmountGroup(text[Leftmost(I)])

SearchTicket(text) ==
  LET I == {i \in 1..Len(text) : TicketGroup(text[i]) # ""}
  IN IF I = {} THEN "" ELSE TicketGroup(text[Leftmost(I)])

SearchSerial(text) ==
  LET I == {i \in 1..Len(text) : SerialGroup(text[i]) # ""}
  IN IF I = {} THEN "" ELSE SerialGroup(text[Leftmost(I)])

SearchPart(text) ==
  LET I == {i \in 1..Len(text) : PartGroup(text[i]) # ""}
  IN IF I = {} THEN "" ELSE PartGroup(text[Leftmost(I)])

SearchAgent(text) ==
  LET I == {i \in 1..Len(text) : AgentGroup(text[i]) # ""}
  IN IF I = {} THEN "" ELSE AgentGroup(text[Leftmost(I)])

\* ORDER_RE_LIST[n - 1].search(text)
SearchOrder(text, n) ==
  LET I == {i \in 1..Len(text) : OrderPat(text[i]) = n}
  IN IF I = {} THEN "" ELSE OrderGroup(text[Leftmost(I)])

Count(text, ch) == Cardinality({i \in 1..Len(text) : ch \in Hits(text[i])})

(***************************************************************************)
(* perception.py                                                           *)
(***************************************************************************)
anger_keywords == {"angry", "furious", "unacceptable", "terrible", "hate",
                   "ridiculous", "done", "fed up", "awful"}
polite_keywords == {"please", "thank you", "thanks", "kindly"}
confusion_keywords == {"don't understand", "confused", "explain", "what is",
                       "why is", "how", "?"}

\* Mutant: the question mark is not among the confusion keywords.
baseline_emotion_keyword_only(text) ==
  IF AnyIn(text, confusion_keywords \ {"?"}) /\ Count(text, "?") >= 1 THEN "confused"
  ELSE IF AnyIn(text, anger_keywords) \/ Count(text, "!") >= 1 THEN "angry"
  ELSE IF AnyIn(text, polite_keywords) THEN "polite"
  ELSE "neutral"

\* Block 1 of analyze_emotion: the keyword/punctuation baseline.
baseline_emotion(text) ==
  IF AnyIn(text, confusion_keywords) /\ Count(text, "?") >= 1 THEN "confused"
  ELSE IF AnyIn(text, anger_keywords) \/ Count(text, "!") >= 1 THEN "angry"
  ELSE IF AnyIn(text, polite_keywords) THEN "polite"
  ELSE "neutral"

\* What the VADER block meets: the resource fails (ok = FALSE, the except
\* branch), or it yields a compound score c, in tenths: the ends of the
\* range, zero, and the two thresholds with the scores next to them.
ScoreUnit == 10
Scores == {0 - ScoreUnit, -6, -5, -4, 0, 4, 5, 6, ScoreUnit}
VaderOutcomes == {[ok |-> FALSE, c |-> 0]} \cup {[ok |-> TRUE, c |-> s] : s \in Scores}

\* Mutant: a strongly positive score makes any baseline polite.
analyze_emotion_positive_overrides(text, v) ==
  LET emotion == baseline_emotion(text)
  IN IF ~v.ok THEN emotion
     ELSE IF v.c <= -5 THEN "angry"
     ELSE IF v.c >= 5 THEN "polite"
     ELSE emotion

analyze_emotion(text, v) ==
  LET emotion == baseline_emotion(text)
  IN IF ~v.ok THEN emotion
     ELSE IF emotion \in {"neutral", "polite", "confused"}
       THEN IF v.c <= -5 THEN "angry"
            ELSE IF v.c >= 5 /\ emotion = "neutral" THEN "polite"
            ELSE emotion
       ELSE emotion

detect_missing_part_name(text) == SearchPart(text)

detect_agent_name(text) == SearchAgent(text)

refund_kw == {"refund", "return", "money back", "chargeback"}
defect_kw == {"defect", "broken", "damaged", "cracked", "not working", "doesn't work", "dies"}
billing_kw == {"bill", "charged", "invoice", "fee", "renewal", "charge "}
cancel_kw == {"cancel", "canceling", "switch", "leave", "take my business elsewhere"}
missing_words == {"missing", "no", "not included", "didn't come with", "did not come with"}
part_vocab == {"hex key", "allen key", "screw", "adapter", "cable", "charger", "manual", "tool"}
callback_kw == {"call me", "call back", "callback", "phone"}
praise_kw == {"great service", "perfect service", "kudos", "appreciate", "thank you", "thanks"}

MissingPhrase(text) == \E i \in 1..Len(text) : WordHits(text[i]) \cap missing_words # {}

\* Mutant: praise is tested first.
select_intent_praise_first(text) ==
  IF AnyIn(text, praise_kw) THEN "praise"
  ELSE IF AnyIn(text, refund_kw) THEN "refund_request"
  ELSE IF AnyIn(text, defect_kw) THEN "defect_report"
  ELSE IF AnyIn(text, billing_kw) THEN "billing_issue"
  ELSE IF AnyIn(text, cancel_kw) THEN "cancellation_threat"
  ELSE IF MissingPhrase(text) /\ AnyIn(text, part_vocab) THEN "missing_part"
  ELSE IF AnyIn(text, callback_kw) THEN "callback_request"
  ELSE IF SearchTicket(text) # "" THEN "followup_existing"
  ELSE "generic_complaint"

\* The intent chain of perceive.
select_intent(text) ==
  IF AnyIn(text, refund_kw) THEN "refund_request"
  ELSE IF AnyIn(text, defect_kw) THEN "defect_report"
  ELSE IF AnyIn(text, billing_kw) THEN "billing_issue"
  ELSE IF AnyIn(text, cancel_kw) THEN "cancellation_threat"
  ELSE IF MissingPhrase(text) /\ AnyIn(text, part_vocab) THEN "missing_part"
  ELSE IF AnyIn(text, callback_kw) THEN "callback_request"
  ELSE IF SearchTicket(text) # "" THEN "followup_existing"
  ELSE IF AnyIn(text, praise_kw) THEN "praise"
  ELSE "generic_complaint"

\* The first pattern of ORDER_RE_LIST that matches anywhere wins.
extract_order_id(text) ==
  IF SearchOrder(text, 1) # "" THEN SearchOrder(text, 1)
  ELSE IF SearchOrder(text, 2) # "" THEN SearchOrder(text, 2)
  ELSE SearchOrder(text, 3)

\* Only the first PHONE_RE match is examined.
extract_phone(text) ==
  LET raw == SearchPhone(text)
  IN IF raw # "" /\ ~IsIsoDate(raw) /\ 10 <= DigitCount(raw) /\ DigitCount(raw) <= 15
       THEN raw ELSE ""

\* A key is in the entity map only when its value was matched.
Entity(k, val) == IF val = "" THEN <<>> ELSE k :> val

extract_entities(text, intent) ==
  Entity("order_id", extract_order_id(text))
  @@ Entity("phone", extract_phone(text))
  @@ Entity("amount", SearchAmount(text))
  @@ Entity("ticket_id", SearchTicket(text))
  @@ Entity("serial", SearchSerial(text))
  @@ (IF intent = "missing_part"
        THEN Entity("part_name", detect_missing_part_name(text)) ELSE <<>>)

\* Mutant: churn risk does not raise the urgency.
urgency_of_emotion_only(churn_risk, emotion, intent) ==
  IF emotion = "angry" THEN "high"
  ELSE IF intent \in {"billing_issue", "refund_request", "defect_report"} THEN "medium"
  ELSE "low"

urgency_of(churn_risk, emotion, intent) ==
  IF churn_risk \/ emotion = "angry" THEN "high"
  ELSE IF intent \in {"billing_issue", "refund_request", "defect_report"} THEN "medium"
  ELSE "low"

churn_risk_of(intent) == intent = "cancellation_threat"

perceive(text, v) ==
  LET emotion == analyze_emotion(text, v)
      intent == select_intent(text)
      entities == extract_entities(text, intent)
      churn_risk == churn_risk_of(intent)
      urgency == urgency_of(churn_risk, emotion, intent)
  IN [emotion |-> emotion, intent |-> intent, entities |-> entities,
      churn_risk |-> churn_risk, urgency |-> urgency]

\* dict.get(key, default)
Get(d, k, default) == IF k \in DOMAIN d THEN d[k] ELSE default
Has(d, k) == k \in DOMAIN d

(***************************************************************************)
(* actions.py: the in-memory record store                                  *)
(***************************************************************************)
NoOrder == [found |-> FALSE]

\* created_at is relative to the start of the process (ORDERS is built at
\* import time from datetime.now()).
ORDERS ==
  [oid \in {"ORD12345", "ORD9ZX88", "ORD-7842-CA", "US-55291", "CA-993144"} |->
    CASE oid = "ORD12345" ->
           [found |-> TRUE, created_at |-> -20, status |-> "delivered",
            refundable_days |-> POLICY.refund_window_days, amount |-> 7999]
      [] oid = "ORD9ZX88" ->
           [found |-> TRUE, created_at |-> -45, status |-> "delivered",
            refundable_days |-> POLICY.refund_window_days, amount |-> 12900]
      [] oid = "ORD-7842-CA" ->
           [found |-> TRUE, created_at |-> -13, status |-> "carrier_damage_scan",
            refundable_days |-> POLICY.refund_window_days, amount |-> 14900]
      [] oid = "US-55291" ->
           [found |-> TRUE, created_at |-> -7, status |-> "delivered",
            refundable_days |-> POLICY.refund_window_days, amount |-> 2900]
      [] oid = "CA-993144" ->
           [found |-> TRUE, created_at |-> -21, status |-> "delivered",
            refundable_days |-> POLICY.refund_window_days, amount |-> 19900]]

FirstTicketNumber == 1001

\* The module-level state of actions.py as one value.
Store == [TICKET_COUNTER |-> TICKET_COUNTER, ACTIONS_LOG |-> ACTIONS_LOG,
          REFUNDS |-> REFUNDS, REPLACEMENTS |-> REPLACEMENTS, CREDITS |-> CREDITS,
          CALLBACKS |-> CALLBACKS, ESCALATIONS |-> ESCALATIONS,
          SHIPMENTS |-> SHIPMENTS]

EmptyStore == [TICKET_COUNTER |-> FirstTicketNumber, ACTIONS_LOG |-> <<>>,
               REFUNDS |-> <<>>, REPLACEMENTS |-> <<>>, CREDITS |-> <<>>,
               CALLBACKS |-> <<>>, ESCALATIONS |-> <<>>, SHIPMENTS |-> <<>>]

lookup_order(order_id) == IF order_id \in DOMAIN ORDERS THEN ORDERS[order_id] ELSE NoOrder

\* (datetime.now() - order["created_at"]).days
days_since(o) == now - o.created_at

\* Mutant: the last day of the window is excluded.
is_refund_eligible_strict(o) ==
  IF days_since(o) < o.refundable_days
    THEN <<TRUE, [window |-> o.refundable_days, day |-> days_since(o)]>>
    ELSE <<FALSE, [window |-> o.refundable_days, day |-> days_since(o)]>>

is_refund_eligible(o) ==
  IF days_since(o) <= o.refundable_days
    THEN <<TRUE, [window |-> o.refundable_days, day |-> days_since(o)]>>
    ELSE <<FALSE, [window |-> o.refundable_days, day |-> days_since(o)]>>

ticket_prefix_for_kind(kind) == IF kind = "cancellation_threat" THEN "RET" ELSE "TCK"

\* kind[:2].upper()
KindTag(kind) ==
  CASE kind = "refund_request"      -> "RE"
    [] kind = "defect_report"       -> "DE"
    [] kind = "billing_issue"       -> "BI"
    [] kind = "generic_complaint"   -> "GE"
    [] kind = "cancellation_threat" -> "CA"
    [] kind = "missing_part"        -> "MI"
    [] kind = "callback_request"    -> "CA"
    [] kind = "followup_existing"   -> "FO"
    [] kind = "praise"              -> "PR"

\* An identifier f"{prefix}-{date}-{tag}{n}" is kept as its parts.
Id(prefix, date, tag, n) == [prefix |-> prefix, date |-> date, tag |-> tag, n |-> n]

\* Each store operation returns the new store S and its return value ret.
\* The ticket payload (text and entities) is written to the log and never
\* read; the log entry keeps type, id and kind.
create_ticket(S, kind) ==
  LET n == S.TICKET_COUNTER
      ticket_id == Id(ticket_prefix_for_kind(kind), now, KindTag(kind), n)
  IN [S |-> [S EXCEPT !.TICKET_COUNTER = n + 1,
                      !.ACTIONS_LOG = Append(@, [type |-> "ticket", id |-> ticket_id,
                                                 kind |-> kind])],
      ret |-> ticket_id]

schedule_callback(S, phone, when) ==
  [S |-> [S EXCEPT !.CALLBACKS = Append(@, [phone |-> phone, window |-> when])],
   ret |-> [label |-> "Callback scheduled to", phone |-> phone, window |-> when]]

escalate(S, account_or_reason) ==
  LET esc_id == Id("ESC", now, "", Len(S.ESCALATIONS) + 1)
  IN [S |-> [S EXCEPT !.ESCALATIONS = Append(@, [id |-> esc_id,
                                                 reason |-> account_or_reason])],
      ret |-> esc_id]

\* Mutant: the refund number is taken from the replacement list.
issue_refund_counts_replacements(S, order_id, amount) ==
  LET refund_id == Id("RF", now, "", Len(S.REPLACEMENTS) + 1)
      eta == now + POLICY.refund_eta_days
  IN [S |-> [S EXCEPT !.REFUNDS = Append(@, [refund_id |-> refund_id,
                                             order_id |-> order_id,
                                             amount |-> amount, eta_date |-> eta])],
      ret |-> <<refund_id, eta>>]

issue_refund(S, order_id, amount) ==
  LET refund_id == Id("RF", now, "", Len(S.REFUNDS) + 1)
      eta == now + POLICY.refund_eta_days
  IN [S |-> [S EXCEPT !.REFUNDS = Append(@, [refund_id |-> refund_id,
                                             order_id |-> order_id,
                                             amount |-> amount, eta_date |-> eta])],
      ret |-> <<refund_id, eta>>]

create_replacement(S, order_id, sku_hint) ==
  LET repl_id == Id("RP", now, "", Len(S.REPLACEMENTS) + 1)
      eta_delivery == now + POLICY.replacement_delivery_days
  IN [S |-> [S EXCEPT !.REPLACEMENTS = Append(@, [replacement_id |-> repl_id,
                                                  order_id |-> order_id,
                                                  sku |-> sku_hint,
                                                  eta_delivery |-> eta_delivery])],
      ret |-> <<repl_id, eta_delivery>>]

\* Mutant: the credit number is taken from the refund list.
add_loyalty_credit_counts_refunds(S, account_id, amount) ==
  LET cred_id == Id("CR", now, "", Len(S.REFUNDS) + 1)
      applied == now
  IN [S |-> [S EXCEPT !.CREDITS = Append(@, [credit_id |-> cred_id,
                                             account |-> account_id,
                                             amount |-> amount, applied |-> applied])],
      ret |-> <<cred_id, applied>>]

add_loyalty_credit(S, account_id, amount) ==
  LET cred_id == Id("CR", now, "", Len(S.CREDITS) + 1)
      applied == now
  IN [S |-> [S EXCEPT !.CREDITS = Append(@, [credit_id |-> cred_id,
                                             account |-> account_id,
                                             amount |-> amount, applied |-> applied])],
      ret |-> <<cred_id, applied>>]

apply_retention_offer(S, account_id, amount) ==
  LET r == add_loyalty_credit(S, account_id, amount)
  IN [S |-> r.S, ret |-> <<r.ret[1], amount>>]

eta_days == 4

\* Mutant: the shipment always carries the default content.
ship_missing_part_default_content(S, part_name) ==
  LET sid == Id("S", 0, "", Len(S.SHIPMENTS) + 1)
      eta == now + eta_days
      payload == [shipment_id |-> sid, content |-> "accessory", eta |-> eta]
  IN [S |-> [S EXCEPT !.SHIPMENTS = Append(@, payload)], ret |-> payload]

\* Shipment ids are f"S{n:04d}": no date.
ship_missing_part(S, part_name) ==
  LET sid == Id("S", 0, "", Len(S.SHIPMENTS) + 1)
      eta == now + eta_days
      payload == [shipment_id |-> sid, content |-> part_name, eta |-> eta]
  IN [S |-> [S EXCEPT !.SHIPMENTS = Append(@, payload)], ret |-> payload]

\* A request in progress: the store, the action map and the fact list.
\* actions[key] = value
Put(c, key, value) == [c EXCEPT !.actions = (key :> value) @@ @]
\* Every write to the fact list is also kept in c.writes: the operation and
\* the list it left.
\* facts.append(fact)
AddFact(c, fact) ==
  LET fs == Append(c.facts, fact)
  IN [c EXCEPT !.facts = fs, !.writes = Append(@, [op |-> "append", facts |-> fs])]

\* Mutant: the credit line is written over the last fact.
ensure_loyalty_credit_once_overwrites(c, amount) ==
  IF Has(c.actions, "credit_id") THEN c
  ELSE LET r == add_loyalty_credit(c.S, "acct-on-file", amount)
           line == [label |-> "Loyalty credit", amount |-> amount, id |-> r.ret[1]]
           fs == IF c.facts = <<>> THEN <<line>>
                 ELSE [c.facts EXCEPT ![Len(c.facts)] = line]
           d == Put([c EXCEPT !.S = r.S], "credit_id", r.ret[1])
       IN [d EXCEPT !.facts = fs, !.writes = Append(@, [op |-> "append", facts |-> fs])]

ensure_loyalty_credit_once(c, amount) ==
  IF Has(c.actions, "credit_id") THEN c
  ELSE LET r == add_loyalty_credit(c.S, "acct-on-file", amount)
       IN AddFact(Put([c EXCEPT !.S = r.S], "credit_id", r.ret[1]),
                  [label |-> "Loyalty credit", amount |-> amount, id |-> r.ret[1]])

(***************************************************************************)
(* handle.py: the rules of handle_complaint, in evaluation order           *)
(***************************************************************************)
\* fact.replace(old, new): only the label of a fact line can hold old.
Replace(fact, old, new) == IF fact.label = old THEN [fact EXCEPT !.label = new] ELSE fact

\* facts[-1] = facts[-1].replace(old, new)
RelabelLast(c, old, new) ==
  LET fs == [c.facts EXCEPT ![Len(c.facts)] = Replace(@, old, new)]
  IN [c EXCEPT !.facts = fs, !.writes = Append(@, [op |-> "relabel", facts |-> fs])]

order_lookup(q) ==
  IF Has(q.entities, "order_id") THEN lookup_order(q.entities["order_id"]) ELSE NoOrder

order_rule(c, q, o) ==
  IF o.found
    THEN AddFact(c, [label |-> "Order", oid |-> q.entities["order_id"],
                     status |-> o.status, amount |-> o.amount])
    ELSE c

NEED_TICKET == {"defect_report", "billing_issue", "generic_complaint",
                "cancellation_threat", "missing_part"}

\* Mutant: every refund_request gets a ticket, order found or not.
needs_ticket_any_refund(q, o) ==
  q.intent \in NEED_TICKET \/ q.intent = "refund_request"

needs_ticket(q, o) ==
  q.intent \in NEED_TICKET \/ (q.intent = "refund_request" /\ ~o.found)

ticket_rule(c, q, o) ==
  IF needs_ticket(q, o)
    THEN LET r == create_ticket(c.S, q.intent)
         IN AddFact(Put([c EXCEPT !.S = r.S], "ticket_id", r.ret),
                    [label |-> "Ticket", id |-> r.ret])
  ELSE IF q.intent = "followup_existing"
    THEN AddFact(c, [label |-> "Continuing prior ticket",
                     tid |-> Get(q.entities, "ticket_id", "(not provided)")])
  ELSE c

refund_applies(q, o) == q.intent = "refund_request" /\ o.found

refund_rule(c, q, o) ==
  IF refund_applies(q, o)
    THEN LET e == is_refund_eligible(o)
             c1 == AddFact(c, [label |-> IF e[1] THEN "Refund eligible"
                                                 ELSE "Refund ineligible",
                               note |-> e[2]])
         IN IF e[1]
              THEN LET r == issue_refund(c1.S, q.entities["order_id"], o.amount)
                   IN AddFact(Put(Put([c1 EXCEPT !.S = r.S], "refund_id", r.ret[1]),
                                  "refund_eta", r.ret[2]),
                              [label |-> "Refund ID", id |-> r.ret[1], eta |-> r.ret[2]])
              ELSE RelabelLast(ensure_loyalty_credit_once(c1, POLICY.goodwill_credit_default),
                               "Loyalty credit", "Goodwill credit")
    ELSE c

defect_applies(q, o) == q.intent = "defect_report" /\ o.found

\* Mutant: the carrier damage scan does not override the window.
replacement_due_window_only(o) == days_since(o) <= POLICY.refund_window_days

replacement_due(o) ==
  o.status = "carrier_damage_scan" \/ days_since(o) <= POLICY.refund_window_days

defect_rule(c, q, o) ==
  IF defect_applies(q, o)
    THEN LET c1 == IF replacement_due(o)
                     THEN LET r == create_replacement(c.S, q.entities["order_id"],
                                                      "auto-replacement")
                          IN AddFact(Put(Put([c EXCEPT !.S = r.S],
                                             "replacement_id", r.ret[1]),
                                         "delivery_eta", r.ret[2]),
                                     [label |-> "Replacement ID", id |-> r.ret[1],
                                      eta |-> r.ret[2]])
                     ELSE AddFact(c, [label |-> "Outside 30 days; offering repair or prorated options."])
         IN IF Has(q.entities, "serial")
              THEN AddFact(c1, [label |-> "Serial", serial |-> q.entities["serial"]])
              ELSE c1
    ELSE c

duplicate_kw == {"twice", "duplicate", "charged again", "double"}

\* Mutant: the duplicate charge is credited with the loyalty amount.
billing_rule_loyalty_amount(c, q, text) ==
  IF q.intent = "billing_issue"
    THEN LET c1 == AddFact(c, [label |-> "Billing audit opened to verify duplicate/incorrect charges."])
         IN IF Has(q.entities, "amount") /\ AnyIn(text, duplicate_kw)
              THEN RelabelLast(ensure_loyalty_credit_once(c1, POLICY.loyalty_credit_amount),
                               "Loyalty credit", "Immediate credit issued")
            ELSE IF Has(q.entities, "amount")
              THEN AddFact(c1, [label |-> "Amount in question noted",
                                amount |-> q.entities["amount"]])
            ELSE c1
    ELSE c

billing_rule(c, q, text) ==
  IF q.intent = "billing_issue"
    THEN LET c1 == AddFact(c, [label |-> "Billing audit opened to verify duplicate/incorrect charges."])
         IN IF Has(q.entities, "amount") /\ AnyIn(text, duplicate_kw)
              THEN RelabelLast(ensure_loyalty_credit_once(c1, Float(q.entities["amount"])),
                               "Loyalty credit", "Immediate credit issued")
            ELSE IF Has(q.entities, "amount")
              THEN AddFact(c1, [label |-> "Amount in question noted",
                                amount |-> q.entities["amount"]])
            ELSE c1
    ELSE c

missing_part_rule(c, q) ==
  IF q.intent = "missing_part"
    THEN LET part == Get(q.entities, "part_name", "accessory")
             r == ship_missing_part(c.S, part)
             sh == r.ret
             c1 == AddFact(Put(Put([c EXCEPT !.S = r.S], "shipment_id", sh.shipment_id),
                               "shipment_eta", sh.eta),
                           [label |-> "Missing part shipment", id |-> sh.shipment_id,
                            content |-> sh.content, eta |-> sh.eta])
         IN ensure_loyalty_credit_once(c1, POLICY.loyalty_credit_amount)
    ELSE c

\* Mutant: the praise rule also taken for a polite message.
praise_applies_polite(q) == q.intent = "praise" \/ q.emotion = "polite"

praise_applies(q) == q.intent = "praise"

praise_rule(c, q, text) ==
  IF praise_applies(q)
    THEN LET agent_name == detect_agent_name(text)
             c1 == IF agent_name # ""
                     THEN AddFact(Put(c, "agent_name", agent_name),
                                  [label |-> "Kudos recorded for", agent |-> agent_name])
                     ELSE c
         IN ensure_loyalty_credit_once(c1, POLICY.loyalty_credit_amount)
    ELSE c

retention_rule(c, q) ==
  IF q.intent = "cancellation_threat"
    THEN LET e == escalate(c.S, "churn-risk")
             c1 == AddFact(Put([c EXCEPT !.S = e.S], "escalation_id", e.ret),
                           [label |-> "Escalation", id |-> e.ret])
             r == apply_retention_offer(c1.S, "acct-on-file", POLICY.goodwill_credit_default)
         IN AddFact(Put([c1 EXCEPT !.S = r.S], "credit_id", r.ret[1]),
                    [label |-> "Retention credit", amount |-> r.ret[2], id |-> r.ret[1]])
    ELSE c

\* Mutant: a captured phone alone schedules no callback.
callback_applies_intent_only(q) == q.intent = "callback_request"

callback_applies(q) == q.intent = "callback_request" \/ Has(q.entities, "phone")

callback_rule(c, q) ==
  IF callback_applies(q)
    THEN LET phone == Get(q.entities, "phone", "(not provided)")
             r == schedule_callback(c.S, phone, POLICY.callback_window)
         IN AddFact(Put([c EXCEPT !.S = r.S], "callback", r.ret), r.ret)
    ELSE c

(***************************************************************************)
(* compose.py.  A string is a sequence of pieces: the line break, the      *)
(* bullet mark, a piece of prose, or one line of a fact string.  The       *)
(* single spaces that join sentences are not pieces.                       *)
(***************************************************************************)
NL == [kind |-> "nl"]
Dash == [kind |-> "dash"]
Prose(what) == [kind |-> "prose", what |-> what]
Done(what, id) == [kind |-> "done", what |-> what, id |-> id]
NextLine(what, eta) == [kind |-> "next", what |-> what, eta |-> eta]

\* s.split("\n") of a captured string.
SplitLines(s) ==
  IF s = "555-123-4567\n12" THEN <<"555-123-4567", "12">> ELSE <<s>>

\* How many lines the string of a fact has: the formatted fields of a fact
\* hold no line break, except a captured phone.
FactLines(fact) ==
  IF "phone" \in DOMAIN fact THEN Len(SplitLines(fact.phone)) ELSE 1

\* The string of a fact, line by line.
FactText(fact) ==
  LET n == FactLines(fact)
  IN [i \in 1..(2 * n - 1) |->
        IF i % 2 = 1 THEN [kind |-> "fact", text |-> fact, part |-> (i + 1) \div 2, of |-> n]
                     ELSE NL]

Opt(cond, pieces) == IF cond THEN pieces ELSE <<>>

\* "\n- " + "\n- ".join(facts) if facts else ""
Bullets(fs, i) ==
  LET b[k \in 0..Len(fs)] ==
        IF k = 0 THEN <<>> ELSE b[k - 1] \o <<NL, Dash>> \o FactText(fs[k])
  IN b[i]

compose_sections(q, acts, fs) ==
  LET ticket == Opt(Has(acts, "ticket_id"), <<Done("Created support case", Get(acts, "ticket_id", ""))>>)
      refund == Opt(Has(acts, "refund_id"), <<Done("Initiated a refund", Get(acts, "refund_id", ""))>>)
      repl == Opt(Has(acts, "replacement_id"),
                  <<Done("Queued a replacement shipment", Get(acts, "replacement_id", ""))>>)
      ship == Opt(Has(acts, "shipment_id"),
                  <<Done("Dispatched the missing part", Get(acts, "shipment_id", ""))>>)
      callback == IF Has(acts, "callback") THEN FactText(acts["callback"]) ELSE <<>>
      esc == Opt(Has(acts, "escalation_id"),
                 <<Done("Escalated your case internally", Get(acts, "escalation_id", ""))>>)
      credit == Opt(Has(acts, "credit_id"), <<Done("Applied a credit", Get(acts, "credit_id", ""))>>)
      courtesy == Opt(Has(acts, "credit_id"),
                      <<Done("We also applied a small courtesy credit", Get(acts, "credit_id", ""))>>)
      all == ticket \o refund \o repl \o ship \o callback \o esc \o credit
      \* the stable sort by _rank_missing_part
      done_lines == IF all = <<>> THEN <<Prose("Documented your report and confirmed next steps.")>>
                    ELSE IF q.intent = "missing_part"
                      THEN ship \o ticket \o courtesy \o refund \o repl \o callback \o esc
                    ELSE all
      next_lines ==
        Opt(Has(acts, "refund_eta"), <<NextLine("Refund posts by", Get(acts, "refund_eta", 0))>>)
        \o Opt(Has(acts, "delivery_eta"),
               <<NextLine("Replacement delivery ETA", Get(acts, "delivery_eta", 0))>>)
        \o Opt(Has(acts, "shipment_eta"),
               <<NextLine("Missing part delivery ETA", Get(acts, "shipment_eta", 0))>>)
        \o Opt(q.intent = "billing_issue", <<Prose("Billing audit update within 1-2 business days.")>>)
        \o Opt(q.intent = "followup_existing",
               <<Prose("We will summarize prior actions and outcomes today.")>>)
        \o Opt(q.intent = "cancellation_threat", <<Prose("Retention specialist will reach out today.")>>)
      intro ==
        IF q.intent = "praise"
          THEN IF Has(acts, "agent_name")
                 THEN <<Prose("Thanks so much for the shout-out"),
                        [kind |-> "agent_note", name |-> acts["agent_name"]]>>
                 ELSE <<Prose("Thanks so much for the shout-out"), Prose("we really appreciate it.")>>
        ELSE IF q.intent = "missing_part"
          THEN <<Prose("Thanks for flagging this - we've shipped the missing part.")>>
        ELSE IF q.intent = "defect_report"
          THEN <<Prose("I know how frustrating hardware issues can be - here's what we've done.")>>
        ELSE IF q.emotion = "angry"
          THEN <<Prose("I'm truly sorry for the trouble you've experienced.")>>
        ELSE IF q.emotion = "confused" THEN <<Prose("I'm happy to clarify this for you.")>>
        ELSE IF q.emotion = "polite" THEN <<Prose("Thanks for reaching out - happy to help.")>>
        ELSE <<Prose("Thanks for reaching out - let's get this resolved.")>>
      para == intro \o <<Prose("What we did:")>> \o done_lines
                    \o <<Prose("Next steps & timelines:")>>
                    \o (IF next_lines = <<>> THEN <<Prose("We'll keep you posted.")>> ELSE next_lines)
      bullets == Bullets(fs, Len(fs))
      closing == <<NL, Prose("If there's anything else you'd like us to address, please let me know.")>>
  IN para \o bullets \o closing

\* A rule is done: how many writes to the fact list have been made so far.
Mark(c) == [c EXCEPT !.marks = Append(@, Len(c.writes))]

\* The rules in the order handle_complaint runs them, for the perception q
\* and the order o.
run_rules(S, text, q, o) ==
  Mark(callback_rule(
  Mark(retention_rule(
  Mark(praise_rule(
  Mark(missing_part_rule(
  Mark(billing_rule(
  Mark(defect_rule(
  Mark(refund_rule(
  Mark(ticket_rule(
  Mark(order_rule([S |-> S, actions |-> <<>>, facts |-> <<>>,
                   writes |-> <<>>, marks |-> <<>>], q, o)),
       q, o)), q, o)), q, o)), q, text)), q)), q, text)), q)), q))

\* What a request leaves: the perception, the order found, the store, action
\* map and fact list after the last rule, the composed reply, and the writes
\* to the fact list with the count each rule had seen done.
outcome(q, o, c) ==
  [p |-> q, order |-> o, S |-> c.S, actions |-> c.actions, facts |-> c.facts,
   reply |-> compose_sections(q, c.actions, c.facts),
   trail |-> [writes |-> c.writes, marks |-> c.marks]]

handle_order(S, text, q, o) == outcome(q, o, run_rules(S, text, q, o))

handle_perceived(S, text, q) == handle_order(S, text, q, order_lookup(q))

\* handle_complaint(user_text, use_gemini_polish=False)
handle_complaint(S, text, v) == handle_perceived(S, text, perceive(text, v))

(***************************************************************************)
(* The process: requests are handled one after another while time passes.  *)
(***************************************************************************)
NoPerception == [emotion |-> "", intent |-> "", entities |-> <<>>,
                 churn_risk |-> FALSE, urgency |-> ""]
NoVader == [ok |-> FALSE, c |-> 0]
NoTrail == [writes |-> <<>>, marks |-> <<>>]
Workers == 1..NumWorkers
NoCall == [kind |-> "", list |-> "", record |-> <<>>]

\* The requests the orchestration is driven with.
RequestTexts ==
  { <<"refund">>, <<"refund", "(order ORD12345)">>, <<"refund", "(order ORD9ZX88)">>,
    <<"refund", "(order ZZ-0000)">>, <<"thanks", "refund">>,
    <<"cracked">>, <<"cracked", "(order ORD-7842-CA)">>,
    <<"cracked", "(order CA-993144)">>, <<"cracked", "(order ORD9ZX88)">>,
    <<"cracked", "(order CA-993144)", "Serial CT-V11-9F2">>,
    <<"charged">>, <<"charged", "twice">>, <<"charged", "$19.99">>,
    <<"charged", "$19.99", "twice">>, <<"charge", "(order ORD12345)", "twice">>,
    <<"canceling">>, <<"canceling", "!">>, <<"canceling", "thanks">>,
    <<"no", "hex key">>, <<"no", "hex key", "thanks">>,
    <<"call me">>, <<"call me", "+1 555-123-4567">>,
    <<"TCK-2025-10-06-C8">>, <<"TCK-2025-10-06-C8", "+1 555-123-4567">>,
    <<"thanks">>, <<"thanks", "Janelle from support">>,
    <<"hello">>, <<"hello", "?">>,
    <<"call me", TwoLines>>, <<"thanks", TwoLines>> }
  \cup { <<k, "+1 555-123-4567">> :
           k \in {"refund", "cracked", "charged", "canceling", "thanks", "hello"} }
  \cup { <<"+1 555-123-4567", "no", "hex key">>,
         <<"+1 555-123-4567", "refund", "(order ORD9ZX88)">>,
         <<"+1 555-123-4567", "refund", "(order ORD12345)">>,
         <<"+1 555-123-4567", "charged", "twice">>,
         <<"+1 555-123-4567", "cracked", "(order ORD-7842-CA)">> }

\* The sentiment outcomes the orchestration is driven with: the resource
\* fails, or, for some of the texts, it scores the text strongly negative.
RequestVader == {NoVader, [ok |-> TRUE, c |-> -5]}

ScoredTexts ==
  { <<"thanks">>, <<"hello">>, <<"canceling">>, <<"thanks", "refund">>,
    <<"refund", "(order ORD9ZX88)">>, <<"charged", "$19.99", "twice">>,
    <<"no", "hex key", "thanks">>, <<"thanks", "Janelle from support">> }

Requests ==
  {<<text, NoVader>> : text \in RequestTexts}
  \cup {rq \in ScoredTexts \X RequestVader : rq[2].ok}

Init ==
  /\ now = 0
  /\ TICKET_COUNTER = FirstTicketNumber
  /\ ACTIONS_LOG = <<>> /\ REFUNDS = <<>> /\ REPLACEMENTS = <<>> /\ CREDITS = <<>>
  /\ CALLBACKS = <<>> /\ ESCALATIONS = <<>> /\ SHIPMENTS = <<>>
  /\ user_text = <<>> /\ vader = NoVader /\ today = 0 /\ before = EmptyStore
  /\ p = NoPerception /\ order = NoOrder
  /\ actions = <<>> /\ facts = <<>> /\ reply = <<>> /\ trail = NoTrail
  /\ served = 0
  /\ pc = [w \in Workers |-> "idle"] /\ local = [w \in Workers |-> NoCall]
  /\ overlapped = FALSE

HandleComplaint ==
  /\ served < MaxRequests
  /\ \E rq \in Requests :
       \E r \in {handle_complaint(Store, rq[1], rq[2])} :
          /\ user_text' = rq[1] /\ vader' = rq[2] /\ today' = now /\ before' = Store
          /\ p' = r.p /\ order' = r.order /\ actions' = r.actions /\ facts' = r.facts
          /\ reply' = r.reply /\ trail' = r.trail
          /\ TICKET_COUNTER' = r.S.TICKET_COUNTER /\ ACTIONS_LOG' = r.S.ACTIONS_LOG
          /\ REFUNDS' = r.S.REFUNDS /\ REPLACEMENTS' = r.S.REPLACEMENTS
          /\ CREDITS' = r.S.CREDITS /\ CALLBACKS' = r.S.CALLBACKS
          /\ ESCALATIONS' = r.S.ESCALATIONS /\ SHIPMENTS' = r.S.SHIPMENTS
  /\ served' = served + 1
  /\ UNCHANGED <<now, workers>>

\* datetime.now() moves on between requests.
Tick ==
  /\ now + TickDays <= MaxDay
  /\ now' = now + TickDays
  /\ UNCHANGED <<store, request, served, workers>>

Next == HandleComplaint \/ Tick

Spec == Init /\ [][Next]_vars

(***************************************************************************)
(* The issuing calls of actions.py run by parallel workers.  A call reads  *)
(* the length of its list and builds its record in one step, and appends   *)
(* the record in a later step; no lock is held in between.                 *)
(***************************************************************************)
IssuingKinds == {"refund", "replacement", "credit", "escalation", "shipment"}

\* The record list of each kind.
ListOf(kind) ==
  CASE kind = "refund"      -> "REFUNDS"
    [] kind = "replacement" -> "REPLACEMENTS"
    [] kind = "credit"      -> "CREDITS"
    [] kind = "escalation"  -> "ESCALATIONS"
    [] kind = "shipment"    -> "SHIPMENTS"

\* The calls as handle_complaint makes them.
Issue(S, kind) ==
  CASE kind = "refund"      -> issue_refund(S, "ORD12345", ORDERS["ORD12345"].amount)
    [] kind = "replacement" -> create_replacement(S, "ORD-7842-CA", "auto-replacement")
    [] kind = "credit"      -> add_loyalty_credit(S, "acct-on-file", POLICY.loyalty_credit_amount)
    [] kind = "escalation"  -> escalate(S, "churn-risk")
    [] kind = "shipment"    -> ship_missing_part(S, "hex key")

\* The record a call builds from the store it reads.
Built(S, kind) ==
  LET list == Issue(S, kind).S[ListOf(kind)]
  IN list[Len(list)]

\* len(LIST) + 1, the identifier and the other fields of the record.
Begin(w) ==
  /\ pc[w] = "idle"
  /\ served < MaxCalls
  /\ \E kind \in IssuingKinds :
       /\ local' = [local EXCEPT ![w] = [kind |-> kind, list |-> ListOf(kind),
                                         record |-> Built(Store, kind)]]
       /\ overlapped' = (overlapped \/ \E w2 \in Workers \ {w} :
                                          pc[w2] = "append" /\ local[w2].kind = kind)
  /\ pc' = [pc EXCEPT ![w] = "append"]
  /\ served' = served + 1
  /\ UNCHANGED <<now, store, request>>

\* LIST.append(record)
Finish(w) ==
  /\ pc[w] = "append"
  /\ \E S \in {[Store EXCEPT ![local[w].list] = Append(@, local[w].record)]} :
       /\ TICKET_COUNTER' = S.TICKET_COUNTER /\ ACTIONS_LOG' = S.ACTIONS_LOG
       /\ REFUNDS' = S.REFUNDS /\ REPLACEMENTS' = S.REPLACEMENTS
       /\ CREDITS' = S.CREDITS /\ CALLBACKS' = S.CALLBACKS
       /\ ESCALATIONS' = S.ESCALATIONS /\ SHIPMENTS' = S.SHIPMENTS
  /\ pc' = [pc EXCEPT ![w] = "idle"]
  /\ local' = [local EXCEPT ![w] = NoCall]
  /\ UNCHANGED <<now, request, served, overlapped>>

NextParallel == \E w \in Workers : Begin(w) \/ Finish(w)

SpecParallel == Init /\ [][NextParallel]_vars

(***************************************************************************)
(* perceive as a pure function: one text, one sentiment outcome.           *)
(***************************************************************************)
Texts == UNION {[1..n -> Vocab] : n \in 1..MaxLen}

InitPerceive ==
  /\ now = 0
  /\ TICKET_COUNTER = FirstTicketNumber
  /\ ACTIONS_LOG = <<>> /\ REFUNDS = <<>> /\ REPLACEMENTS = <<>> /\ CREDITS = <<>>
  /\ CALLBACKS = <<>> /\ ESCALATIONS = <<>> /\ SHIPMENTS = <<>>
  /\ user_text \in Texts /\ vader \in VaderOutcomes /\ today = 0 /\ before = EmptyStore
  /\ p = NoPerception /\ order = NoOrder
  /\ actions = <<>> /\ facts = <<>> /\ reply = <<>> /\ trail = NoTrail
  /\ served = 0
  /\ pc = [w \in Workers |-> "idle"] /\ local = [w \in Workers |-> NoCall]
  /\ overlapped = FALSE

Perceive ==
  /\ served = 0
  /\ p' = perceive(user_text, vader)
  /\ served' = 1
  /\ UNCHANGED <<now, store, user_text, vader, today, before, order, actions, facts,
               reply, trail, workers>>

NextPerceive == Perceive

SpecPerceive == InitPerceive /\ [][NextPerceive]_vars

(***************************************************************************)
(* Properties.  A request has been handled when served > 0; what a request *)
(* issued is what the store holds beyond `before`.                         *)
(***************************************************************************)
Handled == served > 0

NewTickets == Len(ACTIONS_LOG) - Len(before.ACTIONS_LOG)
NewRefunds == Len(REFUNDS) - Len(before.REFUNDS)
NewReplacements == Len(REPLACEMENTS) - Len(before.REPLACEMENTS)
NewCredits == Len(CREDITS) - Len(before.CREDITS)
NewCallbacks == Len(CALLBACKS) - Len(before.CALLBACKS)
NewEscalations == Len(ESCALATIONS) - Len(before.ESCALATIONS)
NewShipments == Len(SHIPMENTS) - Len(before.SHIPMENTS)

FactsLabelled(L) == {i \in 1..Len(facts) : facts[i].label \in L}
CreditLabels == {"Loyalty credit", "Goodwill credit", "Immediate credit issued",
                 "Retention credit"}
CreditLines == FactsLabelled(CreditLabels)
LastCredit == CREDITS[Len(CREDITS)]
ElapsedDays == today - order.created_at

\* C1: a request issues at most one credit: the credit store grows by at
\* most one record, every credit record the request added carries the one
\* credit_id of the action map, and the fact list holds at most one credit
\* line; for every intent, cancellation_threat included.
C1_AtMostOneCredit ==
  Handled =>
    /\ NewCredits <= 1
    /\ Cardinality(CreditLines) <= 1
    /\ \A i \in (Len(before.CREDITS) + 1)..Len(CREDITS) :
         Has(actions, "credit_id") /\ CREDITS[i].credit_id = actions["credit_id"]
    /\ (~Has(actions, "credit_id")) => (NewCredits = 0 /\ CreditLines = {})

C1_Witness ==
  /\ Handled /\ p.intent = "cancellation_threat" /\ p.emotion = "polite"
  /\ NewCredits = 1 /\ Cardinality(CreditLines) = 1 /\ Has(actions, "credit_id")

\* C3: a ticket is created (ticket_id in the action map, one ticket fact,
\* the counter advanced by one, one log entry) exactly for the intents
\* defect_report, billing_issue, generic_complaint, cancellation_threat and
\* missing_part and for a refund_request whose order was not found; otherwise
\* nothing of a ticket is created, and followup_existing records the
\* referenced ticket id as a fact.
C3_TicketWanted ==
  \/ p.intent \in {"defect_report", "billing_issue", "generic_complaint",
                   "cancellation_threat", "missing_part"}
  \/ (p.intent = "refund_request" /\ ~order.found)

C3_TicketIff ==
  Handled =>
    /\ C3_TicketWanted <=> Has(actions, "ticket_id")
    /\ Has(actions, "ticket_id") =>
         /\ TICKET_COUNTER = before.TICKET_COUNTER + 1
         /\ NewTickets = 1
         /\ ACTIONS_LOG[Len(ACTIONS_LOG)].id = actions["ticket_id"]
         /\ Cardinality(FactsLabelled({"Ticket"})) = 1
         /\ \A i \in FactsLabelled({"Ticket"}) : facts[i].id = actions["ticket_id"]
    /\ (~Has(actions, "ticket_id")) =>
         /\ TICKET_COUNTER = before.TICKET_COUNTER
         /\ NewTickets = 0
         /\ FactsLabelled({"Ticket"}) = {}
    /\ p.intent = "followup_existing" =>
         /\ Cardinality(FactsLabelled({"Continuing prior ticket"})) = 1
         /\ \A i \in FactsLabelled({"Continuing prior ticket"}) :
              facts[i].tid = p.entities["ticket_id"]
    /\ p.intent # "followup_existing" => FactsLabelled({"Continuing prior ticket"}) = {}

C3_Witness ==
  /\ Handled /\ p.intent = "refund_request" /\ order.found
  /\ ~Has(actions, "ticket_id") /\ TICKET_COUNTER = before.TICKET_COUNTER
  /\ Len(ACTIONS_LOG) > 0

\* C4: a refund is issued only for a refund_request whose order was found.
\* Then, if the whole days since the order was created are at most its
\* refund window, one refund of the order's amount is issued, refund_id and
\* refund_eta are in the action map and no credit is issued; otherwise no
\* refund is issued and exactly one credit of the default goodwill amount is
\* issued, its fact line labelled 'Goodwill credit'.  No request has both a
\* refund_id and a credit_id.
C4_Refund ==
  Handled =>
    /\ (NewRefunds > 0 \/ Has(actions, "refund_id") \/ Has(actions, "refund_eta"))
         => (p.intent = "refund_request" /\ order.found)
    /\ (p.intent = "refund_request" /\ order.found /\ ElapsedDays <= order.refundable_days) =>
         /\ NewRefunds = 1
         /\ REFUNDS[Len(REFUNDS)].amount = order.amount
         /\ REFUNDS[Len(REFUNDS)].order_id = p.entities["order_id"]
         /\ Has(actions, "refund_id") /\ Has(actions, "refund_eta")
         /\ actions["refund_id"] = REFUNDS[Len(REFUNDS)].refund_id
         /\ actions["refund_eta"] = today + refund_eta_days
         /\ NewCredits = 0 /\ ~Has(actions, "credit_id") /\ CreditLines = {}
    /\ (p.intent = "refund_request" /\ order.found /\ ElapsedDays > order.refundable_days) =>
         /\ NewRefunds = 0 /\ ~Has(actions, "refund_id")
         /\ NewCredits = 1
         /\ LastCredit.amount = goodwill_credit_default
         /\ Has(actions, "credit_id") /\ actions["credit_id"] = LastCredit.credit_id
         /\ Cardinality(CreditLines) = 1
         /\ \A i \in CreditLines : facts[i].label = "Goodwill credit"
    /\ ~(Has(actions, "refund_id") /\ Has(actions, "credit_id"))

\* The boundary: a refund issued on the last day of the window.
C4_Witness ==
  /\ Handled /\ p.intent = "refund_request" /\ order.found
  /\ ElapsedDays = order.refundable_days
  /\ NewRefunds = 1 /\ Has(actions, "refund_id")

\* C5: a replacement is issued exactly when the intent is defect_report, the
\* order was found, and the order status is carrier_damage_scan or the days
\* since its creation are within the refund window (with carrier_damage_scan
\* whatever the elapsed days).  A defect_report with an order found and
\* neither condition gets the repair/prorated-options fact instead.  The
\* defect rule issues no credit and no refund.
C5_RepairLabel == "Outside 30 days; offering repair or prorated options."

C5_Replacement ==
  Handled =>
    LET due == /\ p.intent = "defect_report" /\ order.found
               /\ (order.status = "carrier_damage_scan" \/ ElapsedDays <= refund_window_days)
    IN /\ due <=> Has(actions, "replacement_id")
       /\ due <=> NewReplacements = 1
       /\ (~due) => (NewReplacements = 0 /\ ~Has(actions, "delivery_eta"))
       /\ due => /\ actions["replacement_id"] = REPLACEMENTS[Len(REPLACEMENTS)].replacement_id
                 /\ actions["delivery_eta"] = today + replacement_delivery_days
                 /\ FactsLabelled({C5_RepairLabel}) = {}
       /\ (p.intent = "defect_report" /\ order.found /\ ~due) =>
            Cardinality(FactsLabelled({C5_RepairLabel})) = 1
       /\ p.intent = "defect_report" =>
            /\ NewCredits = 0 /\ NewRefunds = 0
            /\ ~Has(actions, "credit_id") /\ ~Has(actions, "refund_id")
            /\ CreditLines = {}

\* A carrier-damaged order replaced although it is past the window.
C5_Witness ==
  /\ Handled /\ p.intent = "defect_report" /\ order.found
  /\ order.status = "carrier_damage_scan" /\ ElapsedDays > refund_window_days
  /\ Has(actions, "replacement_id") /\ NewReplacements = 1

\* C6: a billing_issue request always records the billing-audit fact.  With
\* a duplicate-charge indicator and an amount, exactly one credit of the
\* extracted amount is issued and its fact line is labelled 'Immediate credit
\* issued'; with an amount and no indicator no credit is issued and the
\* amount is noted; with no amount no credit is issued, indicator or not.
C6_AuditLabel == "Billing audit opened to verify duplicate/incorrect charges."
C6_Duplicate == AnyIn(user_text, {"twice", "duplicate", "charged again", "double"})

C6_Billing ==
  (Handled /\ p.intent = "billing_issue") =>
    /\ Cardinality(FactsLabelled({C6_AuditLabel})) = 1
    /\ (C6_Duplicate /\ Has(p.entities, "amount")) =>
         /\ NewCredits = 1
         /\ LastCredit.amount = Float(p.entities["amount"])
         /\ Has(actions, "credit_id") /\ actions["credit_id"] = LastCredit.credit_id
         /\ Cardinality(CreditLines) = 1
         /\ \A i \in CreditLines :
              /\ facts[i].label = "Immediate credit issued"
              /\ facts[i].amount = Float(p.entities["amount"])
         /\ FactsLabelled({"Amount in question noted"}) = {}
    /\ (~C6_Duplicate /\ Has(p.entities, "amount")) =>
         /\ NewCredits = 0 /\ ~Has(actions, "credit_id") /\ CreditLines = {}
         /\ Cardinality(FactsLabelled({"Amount in question noted"})) = 1
         /\ \A i \in FactsLabelled({"Amount in question noted"}) :
              facts[i].amount = p.entities["amount"]
    /\ (~Has(p.entities, "amount")) =>
         /\ NewCredits = 0 /\ ~Has(actions, "credit_id") /\ CreditLines = {}
         /\ FactsLabelled({"Amount in question noted"}) = {}

C6_Witness ==
  /\ Handled /\ p.intent = "billing_issue" /\ C6_Duplicate
  /\ Has(p.entities, "amount") /\ p.entities["amount"] = "19.99"
  /\ NewCredits = 1 /\ LastCredit.amount = 1999

\* C7: a missing_part request creates exactly one shipment (shipment_id and
\* shipment_eta in the action map, content the extracted part name, or
\* 'accessory' when none was extracted) and exactly one credit of the
\* loyalty amount, the shipment fact before the credit fact; no other intent
\* creates a shipment.
C7_MissingPart ==
  Handled =>
    /\ p.intent = "missing_part" <=> NewShipments = 1
    /\ p.intent # "missing_part" =>
         /\ NewShipments = 0
         /\ ~Has(actions, "shipment_id") /\ ~Has(actions, "shipment_eta")
         /\ FactsLabelled({"Missing part shipment"}) = {}
    /\ p.intent = "missing_part" =>
         LET sh == SHIPMENTS[Len(SHIPMENTS)]
         IN /\ Has(actions, "shipment_id") /\ actions["shipment_id"] = sh.shipment_id
            /\ Has(actions, "shipment_eta") /\ actions["shipment_eta"] = sh.eta
            /\ sh.eta = today + eta_days
            /\ sh.content = (IF Has(p.entities, "part_name")
                               THEN p.entities["part_name"] ELSE "accessory")
            /\ NewCredits = 1
            /\ LastCredit.amount = loyalty_credit_amount
            /\ Cardinality(FactsLabelled({"Missing part shipment"})) = 1
            /\ Cardinality(CreditLines) = 1
            /\ \A i \in FactsLabelled({"Missing part shipment"}) :
                 /\ facts[i].content = sh.content
                 /\ \A j \in CreditLines : i < j

C7_Witness ==
  /\ Handled /\ p.intent = "missing_part" /\ NewShipments = 1 /\ NewCredits = 1
  /\ SHIPMENTS[Len(SHIPMENTS)].content = "hex key"
  /\ Len(SHIPMENTS) = 2

\* C8: churn_risk is true exactly for the intent cancellation_threat; with
\* churn_risk or the emotion angry the urgency is high.  A cancellation_threat
\* request creates an escalation (escalation_id in the action map) and
\* exactly one retention credit of the default goodwill amount; no other
\* intent creates an escalation.
C8_Retention ==
  Handled =>
    /\ p.churn_risk <=> p.intent = "cancellation_threat"
    /\ (p.churn_risk \/ p.emotion = "angry") => p.urgency = "high"
    /\ p.intent = "cancellation_threat" =>
         /\ Has(actions, "escalation_id") /\ NewEscalations = 1
         /\ ESCALATIONS[Len(ESCALATIONS)].id = actions["escalation_id"]
         /\ Cardinality(FactsLabelled({"Escalation"})) = 1
         /\ NewCredits = 1
         /\ LastCredit.amount = goodwill_credit_default
         /\ Has(actions, "credit_id") /\ actions["credit_id"] = LastCredit.credit_id
         /\ Cardinality(CreditLines) = 1
         /\ \A i \in CreditLines : /\ facts[i].label = "Retention credit"
                                   /\ facts[i].amount = goodwill_credit_default
    /\ p.intent # "cancellation_threat" =>
         /\ ~Has(actions, "escalation_id") /\ NewEscalations = 0
         /\ FactsLabelled({"Escalation", "Retention credit"}) = {}

\* A cancellation threat in a calm message: high urgency by churn risk alone.
C8_Witness ==
  /\ Handled /\ p.intent = "cancellation_threat" /\ p.churn_risk
  /\ p.emotion = "neutral" /\ p.urgency = "high"
  /\ Has(actions, "escalation_id") /\ NewCredits = 1

\* C9: a callback is scheduled exactly when the intent is callback_request or
\* a phone entity was captured, whatever the intent.  Then exactly one
\* callback record is added, with the captured phone or '(not provided)'; the
\* confirmation is the callback action and the last fact of the request.
C9_Callback ==
  Handled =>
    LET due == p.intent = "callback_request" \/ Has(p.entities, "phone")
    IN /\ due <=> Has(actions, "callback")
       /\ due <=> NewCallbacks = 1
       /\ (~due) => (NewCallbacks = 0 /\ FactsLabelled({"Callback scheduled to"}) = {})
       /\ due =>
            LET cb == CALLBACKS[Len(CALLBACKS)]
            IN /\ cb.phone = (IF Has(p.entities, "phone")
                                THEN p.entities["phone"] ELSE "(not provided)")
               /\ cb.window = callback_window
               /\ actions["callback"].phone = cb.phone
               /\ actions["callback"].window = cb.window
               /\ Len(facts) > 0 /\ facts[Len(facts)] = actions["callback"]
               /\ Cardinality(FactsLabelled({"Callback scheduled to"})) = 1

\* A callback in the same request as a ticket, an escalation and a credit,
\* for an intent other than callback_request.
C9_Witness ==
  /\ Handled /\ p.intent = "cancellation_threat" /\ Has(p.entities, "phone")
  /\ Has(actions, "callback") /\ NewCallbacks = 1
  /\ Has(actions, "ticket_id") /\ Has(actions, "credit_id")
  /\ facts[Len(facts)].label = "Callback scheduled to"

(***************************************************************************)
(* Properties of perceive, under SpecPerceive.                             *)
(***************************************************************************)
Perceived == served = 1

\* C2: the intent is the highest-priority class whose cue is present in the
\* text: refund > defect > billing > cancellation > (missing phrase and part
\* vocabulary) > callback > ticket code > praise, and generic_complaint when
\* no cue is present; a refund keyword with a praise keyword is
\* refund_request.
C2_Class ==
  <<"refund_request", "defect_report", "billing_issue", "cancellation_threat",
    "missing_part", "callback_request", "followup_existing", "praise">>

C2_Cue(k) ==
  CASE k = 1 -> AnyIn(user_text, refund_kw)
    [] k = 2 -> AnyIn(user_text, defect_kw)
    [] k = 3 -> AnyIn(user_text, billing_kw)
    [] k = 4 -> AnyIn(user_text, cancel_kw)
    [] k = 5 -> MissingPhrase(user_text) /\ AnyIn(user_text, part_vocab)
    [] k = 6 -> AnyIn(user_text, callback_kw)
    [] k = 7 -> \E i \in 1..Len(user_text) : TicketGroup(user_text[i]) # ""
    [] k = 8 -> AnyIn(user_text, praise_kw)

C2_IntentPriority ==
  Perceived =>
    /\ \A k \in 1..8 :
         (C2_Cue(k) /\ \A j \in 1..(k - 1) : ~C2_Cue(j)) => p.intent = C2_Class[k]
    /\ (\A k \in 1..8 : ~C2_Cue(k)) => p.intent = "generic_complaint"
    /\ (C2_Cue(1) /\ C2_Cue(8)) => p.intent = "refund_request"

C2_Witness ==
  /\ Perceived /\ C2_Cue(1) /\ C2_Cue(8) /\ p.intent = "refund_request"

\* C10 as stated: the emotion is confused only when the text holds an
\* uncertainty keyword other than the question mark and a question mark, so a
\* text with an exclamation mark and no such pair is never confused.
C10_KeywordAndMark ==
  /\ AnyIn(user_text, {"don't understand", "confused", "explain", "what is",
                       "why is", "how"})
  /\ Count(user_text, "?") >= 1

C10_Original ==
  Perceived =>
    /\ p.emotion = "confused" => C10_KeywordAndMark
    /\ (Count(user_text, "!") >= 1 /\ ~C10_KeywordAndMark) => p.emotion # "confused"

\* C10 as amended: the emotion is confused only when the text holds a
\* question mark, and the question mark is itself an uncertainty cue: a text
\* with a question mark is confused unless the sentiment score makes it
\* angry.  A text with an exclamation mark and no question mark is never
\* confused.
C10_ConfusedIffQuestionMark ==
  Perceived =>
    /\ p.emotion = "confused" => Count(user_text, "?") >= 1
    /\ (Count(user_text, "!") >= 1 /\ Count(user_text, "?") = 0) => p.emotion # "confused"
    /\ (Count(user_text, "?") >= 1 /\ ~(vader.ok /\ vader.c <= -5)) => p.emotion = "confused"

\* Confused with an exclamation mark and a question mark and no keyword.
C10_Witness ==
  /\ Perceived /\ Count(user_text, "!") >= 1 /\ Count(user_text, "?") >= 1
  /\ ~C10_KeywordAndMark /\ p.emotion = "confused"

\* C11: sentiment refinement only escalates.  A text whose lexical baseline
\* is angry is angry for every score and when the sentiment resource fails.
\* A non-angry baseline changes only to angry (score at or below -0.5) or
\* from neutral to polite (score at or above +0.5); when the resource fails
\* the emotion is the baseline.
C11_OnlyEscalates ==
  Perceived =>
    LET b == baseline_emotion(user_text)
    IN /\ b = "angry" => p.emotion = "angry"
       /\ p.emotion # b =>
            /\ vader.ok
            /\ \/ p.emotion = "angry" /\ vader.c <= -5
               \/ b = "neutral" /\ p.emotion = "polite" /\ vader.c >= 5
       /\ (vader.ok /\ b # "angry" /\ vader.c <= -5) => p.emotion = "angry"
       /\ (~vader.ok) => p.emotion = b

\* An angry baseline kept under a strongly positive score.
C11_Witness ==
  /\ Perceived /\ baseline_emotion(user_text) = "angry"
  /\ vader.ok /\ vader.c >= 5 /\ p.emotion = "angry"

(***************************************************************************)
(* Properties of the composed reply, under Spec.                           *)
(***************************************************************************)
\* The lines of a string: str.split("\n").
Lines(str) ==
  LET nl == {i \in 1..Len(str) : str[i].kind = "nl"}
      Nth(k) == CHOOSE i \in nl : Cardinality({j \in nl : j < i}) = k - 1
      First(k) == IF k = 1 THEN 1 ELSE Nth(k - 1) + 1
      Last(k) == IF k = Cardinality(nl) + 1 THEN Len(str) ELSE Nth(k) - 1
  IN [k \in 1..(Cardinality(nl) + 1) |-> SubSeq(str, First(k), Last(k))]

IsBullet(line) == Len(line) > 0 /\ line[1].kind = "dash"

\* The whole string of a fact on one line, after the bullet mark.
BulletOf(fact) == <<Dash, [kind |-> "fact", text |-> fact, part |-> 1, of |-> 1]>>

\* C12: the composed text holds every fact verbatim, each as its own bullet
\* line, in the order of the fact list, with only prose before the first and
\* after the last bullet: the lines of the text are one or more lines of
\* prose without a bullet, then exactly one bullet line per fact, then the
\* closing line; an empty fact list yields no bullet line.
C12_FactsAsBulletLines ==
  Handled =>
    LET L == Lines(reply)
        bullet == {k \in 1..Len(L) : IsBullet(L[k])}
    IN /\ Cardinality(bullet) = Len(facts)
       /\ \A i \in 1..Len(facts) :
            /\ (Len(L) - 1 - Len(facts) + i) \in bullet
            /\ L[Len(L) - 1 - Len(facts) + i] = BulletOf(facts[i])
       /\ facts = <<>> => bullet = {}

(***************************************************************************)
(* Properties of the identifiers, under Spec.                              *)
(***************************************************************************)
\* The identifiers issued so far, by kind, in the order of issue.
TicketIds == [i \in 1..Len(ACTIONS_LOG) |-> ACTIONS_LOG[i].id]
RefundIds == [i \in 1..Len(REFUNDS) |-> REFUNDS[i].refund_id]
ReplacementIds == [i \in 1..Len(REPLACEMENTS) |-> REPLACEMENTS[i].replacement_id]
CreditIds == [i \in 1..Len(CREDITS) |-> CREDITS[i].credit_id]
EscalationIds == [i \in 1..Len(ESCALATIONS) |-> ESCALATIONS[i].id]
ShipmentIds == [i \in 1..Len(SHIPMENTS) |-> SHIPMENTS[i].shipment_id]

Increasing(ids) ==
  \A i, j \in 1..Len(ids) : i < j => (ids[i] # ids[j] /\ ids[i].n < ids[j].n)

\* C13: over requests handled one after another, every identifier is unique
\* among those of its kind (ticket, refund, replacement, credit, escalation,
\* shipment) and carries a sequence number strictly greater than that of
\* every identifier of its kind issued before it.
C13_UniqueIncreasing ==
  /\ Increasing(TicketIds) /\ Increasing(RefundIds) /\ Increasing(ReplacementIds)
  /\ Increasing(CreditIds) /\ Increasing(EscalationIds) /\ Increasing(ShipmentIds)

\* Two credits and two tickets issued on the same day by two requests.
C13_Witness ==
  /\ served = 2 /\ Len(CREDITS) = 2 /\ Len(ACTIONS_LOG) = 2
  /\ CREDITS[1].credit_id.date = CREDITS[2].credit_id.date
  /\ CREDITS[1].credit_id.n = 1 /\ CREDITS[2].credit_id.n = 2
  /\ ACTIONS_LOG[2].id.n = FirstTicketNumber + 1

(***************************************************************************)
(* Properties of the writes to the fact list, under Spec.                  *)
(***************************************************************************)
\* The fact list before and after the k-th write of the request, and the
\* rule that did the write (1 order, 2 ticket, 3 refund, 4 defect, 5 billing,
\* 6 missing part, 7 praise, 8 retention, 9 callback).
FactsAfter(k) == IF k = 0 THEN <<>> ELSE trail.writes[k].facts
RuleOf(k) == CHOOSE r \in 1..9 :
               /\ k <= trail.marks[r]
               /\ \A r2 \in 1..(r - 1) : trail.marks[r2] < k

Relabelled(k) ==
  /\ trail.writes[k].op = "relabel"
  /\ FactsAfter(k) # FactsAfter(k - 1)

\* C14: the fact list is append-only except for label substitution.  An
\* append keeps every entry in place; a relabelling keeps the length and
\* every entry but the last, and changes the last only when it is the
\* 'Loyalty credit' line the same rule (refund: 'Goodwill credit', billing:
\* 'Immediate credit issued') has just appended, and then only its label;
\* after a guard that issued no credit it changes nothing.
C14_AppendOnly ==
  Handled =>
    /\ facts = FactsAfter(Len(trail.writes))
    /\ \A k \in 1..Len(trail.writes) :
         LET old == FactsAfter(k - 1)
             new == FactsAfter(k)
         IN /\ trail.writes[k].op = "append" =>
                 /\ Len(new) = Len(old) + 1
                 /\ \A i \in 1..Len(old) : new[i] = old[i]
            /\ trail.writes[k].op = "relabel" =>
                 /\ Len(new) = Len(old)
                 /\ \A i \in 1..(Len(old) - 1) : new[i] = old[i]
                 /\ RuleOf(k) \in {3, 5}
                 /\ new # old =>
                      /\ k > 1 /\ trail.writes[k - 1].op = "append"
                      /\ RuleOf(k - 1) = RuleOf(k)
                      /\ old[Len(old)].label = "Loyalty credit"
                      /\ old[Len(old)].id = actions["credit_id"]
                      /\ new[Len(new)] =
                           [old[Len(old)] EXCEPT !.label =
                              IF RuleOf(k) = 3 THEN "Goodwill credit"
                                               ELSE "Immediate credit issued"]
                 /\ (k = 1 \/ trail.writes[k - 1].op # "append"
                           \/ old[Len(old)].label # "Loyalty credit") => new = old

\* A goodwill credit relabelled by the refund rule after the order line and
\* the ineligibility note, with a later write by the callback rule.
C14_Witness ==
  /\ Handled /\ p.intent = "refund_request"
  /\ \E k \in 1..Len(trail.writes) :
       /\ Relabelled(k) /\ RuleOf(k) = 3 /\ Len(FactsAfter(k)) = 3
       /\ k < Len(trail.writes)
  /\ facts[3].label = "Goodwill credit"

(***************************************************************************)
(* Properties of parallel issuing calls, under SpecParallel.               *)
(***************************************************************************)
Distinct(ids) == \A i, j \in 1..Len(ids) : i # j => ids[i] # ids[j]

AllDistinct ==
  /\ Distinct(RefundIds) /\ Distinct(ReplacementIds) /\ Distinct(CreditIds)
  /\ Distinct(EscalationIds) /\ Distinct(ShipmentIds)

\* C15: the refund, replacement, credit, escalation and shipment identifiers
\* come from the length of their list, read in one step with the record
\* appended in a later one.  As long as no issuing call has started while
\* another call of its kind was between its read and its append, the
\* identifiers of each kind are distinct, also from the one a call is about
\* to append; interleaved calls can obtain the same identifier (the witness).
C15_DistinctIfExclusive ==
  (~overlapped) =>
    /\ AllDistinct
    /\ \A w \in Workers :
         pc[w] = "append" =>
           \A i \in 1..Len(Store[local[w].list]) :
              Store[local[w].list][i] # local[w].record

\* Two interleaved refund calls have both appended the same identifier.
C15_Witness ==
  /\ overlapped /\ \A w \in Workers : pc[w] = "idle"
  /\ Len(REFUNDS) = 2 /\ REFUNDS[1].refund_id = REFUNDS[2].refund_id

====
